---- MODULE Spec2Model ----
(***************************************************************************)
(* The affiliate catalog: load_affiliate_db.py (ingestion of the CSV into  *)
(* the SQLite tables affiliate_links and vec_links) and                    *)
(* affiliate_mcp_server.py (the four tool operations that query them).     *)
(*                                                                         *)
(* Conventions of the model                                                *)
(*   - a text is a sequence of one-character strings;                      *)
(*   - a float is a fixed-point integer counting hundredths (2.00 is 200); *)
(*     the texts of the model carry at most two fractional digits;         *)
(*   - a cosine distance is an integer counting thousandths;               *)
(*   - a value is a tagged record: "nan" (pandas' missing value), "str"    *)
(*     (a Python str / SQLite TEXT), "real" (a float / SQLite REAL) or     *)
(*     "null" (SQLite NULL / Python None).                                 *)
(***************************************************************************)
EXTENDS Integers, Sequences, FiniteSets, TLC

(***************************************************************************)
(* Texts                                                                   *)
(***************************************************************************)
StartsWith(s, p) == Len(p) <= Len(s) /\ SubSeq(s, 1, Len(p)) = p

DropFirst(s, n) == SubSeq(s, n + 1, Len(s))

\* Python str.replace(old, new): every non-overlapping occurrence, left to right.
RECURSIVE str_replace(_, _, _)
str_replace(s, old, new) ==
    IF s = <<>> THEN <<>>
    ELSE IF StartsWith(s, old)
         THEN new \o str_replace(DropFirst(s, Len(old)), old, new)
         ELSE <<Head(s)>> \o str_replace(Tail(s), old, new)

\* Python str.split(sep): the pieces between the occurrences of sep.
RECURSIVE SplitFrom(_, _, _)
SplitFrom(rest, cur, sep) ==
    IF rest = <<>> THEN <<cur>>
    ELSE IF StartsWith(rest, sep)
         THEN <<cur>> \o SplitFrom(DropFirst(rest, Len(sep)), <<>>, sep)
         ELSE SplitFrom(Tail(rest), Append(cur, Head(rest)), sep)

str_split(s, sep) == SplitFrom(s, <<>>, sep)

\* Python sep.join(parts).
RECURSIVE str_join(_, _)
str_join(parts, sep) ==
    IF parts = <<>> THEN <<>>
    ELSE IF Len(parts) = 1 THEN parts[1]
         ELSE parts[1] \o sep \o str_join(Tail(parts), sep)

RECURSIVE LStrip(_)
LStrip(s) == IF s # <<>> /\ Head(s) = " " THEN LStrip(Tail(s)) ELSE s

RECURSIVE RStrip(_)
RStrip(s) ==
    IF s # <<>> /\ s[Len(s)] = " " THEN RStrip(SubSeq(s, 1, Len(s) - 1)) ELSE s

Strip(s) == LStrip(RStrip(s))

(***************************************************************************)
(* Decimal numerals                                                        *)
(***************************************************************************)
IsDigit(c) == c \in {"0", "1", "2", "3", "4", "5", "6", "7", "8", "9"}

DigitVal(c) ==
    CASE c = "0" -> 0 [] c = "1" -> 1 [] c = "2" -> 2 [] c = "3" -> 3
      [] c = "4" -> 4 [] c = "5" -> 5 [] c = "6" -> 6 [] c = "7" -> 7
      [] c = "8" -> 8 [] c = "9" -> 9

RECURSIVE LeadingDigits(_)
LeadingDigits(s) ==
    IF s # <<>> /\ IsDigit(Head(s))
    THEN <<Head(s)>> \o LeadingDigits(Tail(s))
    ELSE <<>>

RECURSIVE NatOf(_)
NatOf(d) ==
    IF d = <<>> THEN 0
    ELSE 10 * NatOf(SubSeq(d, 1, Len(d) - 1)) + DigitVal(d[Len(d)])

\* The fraction digits as hundredths: ".5" is 50, ".23" is 23.
Hundredths(frac) ==
    LET f == frac \o <<"0", "0">> IN 10 * DigitVal(f[1]) + DigitVal(f[2])

\* The longest prefix of s that is a decimal numeral [sign] digits [. digits]
\* with at least one digit: whether there is one, its length and its value.
NumericPrefix(s) ==
    LET sgn == s # <<>> /\ Head(s) \in {"-", "+"}
        neg == s # <<>> /\ Head(s) = "-"
        body == IF sgn THEN Tail(s) ELSE s
        ip == LeadingDigits(body)
        afterInt == DropFirst(body, Len(ip))
        hasDot == afterInt # <<>> /\ Head(afterInt) = "."
        fp == IF hasDot THEN LeadingDigits(Tail(afterInt)) ELSE <<>>
        ok == Len(ip) + Len(fp) > 0
        used == (IF sgn THEN 1 ELSE 0) + Len(ip)
                    + (IF hasDot THEN 1 + Len(fp) ELSE 0)
        mag == 100 * NatOf(ip) + Hundredths(fp)
    IN  [ok |-> ok,
         len |-> IF ok THEN used ELSE 0,
         v |-> IF ok THEN (IF neg THEN 0 - mag ELSE mag) ELSE 0]

(***************************************************************************)
(* Values                                                                  *)
(***************************************************************************)
NaN == [t |-> "nan", s |-> <<>>, n |-> 0]
Null == [t |-> "null", s |-> <<>>, n |-> 0]
Str(x) == [t |-> "str", s |-> x, n |-> 0]
Real(x) == [t |-> "real", s |-> <<>>, n |-> x]

\* Python float(text): surrounding blanks are ignored, the whole text must be
\* a numeral, anything else raises ValueError.
py_float(s) ==
    LET x == Strip(s)
        p == NumericPrefix(x)
    IN  IF p.ok /\ p.len = Len(x) THEN [ok |-> TRUE, v |-> p.v]
        ELSE [ok |-> FALSE, v |-> 0]

\* SQLite CAST(x AS REAL): NULL stays NULL, a REAL is itself, a TEXT gives the
\* value of its longest numeric prefix and 0.0 when it has none.
CastReal(x) ==
    CASE x.t = "null" -> Null
      [] x.t = "real" -> x
      [] x.t = "str" -> Real(NumericPrefix(LStrip(x.s)).v)

\* What a column of REAL affinity stores: a TEXT that is a well-formed numeral
\* is converted to REAL, any other TEXT is stored as it is.
RealAffinity(x) ==
    IF x.t = "str" /\ py_float(x.s).ok THEN Real(py_float(x.s).v) ELSE x

\* What the sqlite3 module binds for a Python value: a float NaN is bound as
\* NULL.
Bind(x) == IF x.t = "nan" THEN Null ELSE x

(***************************************************************************)
(* The catalog source: data/affiliate_links.csv                            *)
(***************************************************************************)
\* The largest number of data rows of a source file of the model.
MaxRows == 3

T_Books == <<"B", "o", "o", "k", "s">>
T_books == <<"b", "o", "o", "k", "s">>
T_Tech == <<"T", "e", "c", "h">>
T_SAVE == <<"S", "A", "V", "E">>
T_NA == <<"N", "/", "A">>
T_nan == <<"n", "a", "n">>
T_cur200 == <<"$", "2", ".", "0", "0", " ", "U", "S", "D">>
T_num150 == <<"1", ".", "5", "0">>
T_neg100 == <<"-", "$", "1", ".", "0", "0", " ", "U", "S", "D">>
T_TBD == <<"T", "B", "D">>
T_cur123 == <<"$", "1", ".", "2", "3", " ", "U", "S", "D">>
T_num45 == <<"4", ".", "5">>

CsvRow(id, name, desc, kw, cat, ptype, epc, url, coupon) ==
    [LINK_ID |-> id, ADVERTISER |-> <<"x">>, NAME |-> name,
     DESCRIPTION |-> desc, KEYWORDS |-> kw, CATEGORY |-> cat,
     PROMOTION_TYPE |-> ptype, SEVEN_DAY_EPC |-> epc,
     THREE_MONTH_EPC |-> epc, CLICK_URL |-> url, COUPON_CODE |-> coupon]

\* The lines a source file is made of. The first three are the three-record
\* catalog (Books '$2.00 USD', Books '1.50', Tech without EPC); the other two
\* repeat the LINK IDs 1 and 2 with other attributes.
Line1 == CsvRow(1, <<"A">>, <<"d">>, <<"k">>, T_Books, <<"p">>, T_cur200, <<"u", "1">>, <<>>)
Line2 == CsvRow(2, <<"B">>, <<>>, <<"k">>, T_Books, <<"p">>, T_num150, <<"u", "2">>, <<>>)
Line3 == CsvRow(3, <<"C">>, <<"d">>, <<>>, T_Tech, <<>>, <<>>, <<"u", "3">>, <<>>)
Line4 == CsvRow(1, <<"D">>, <<"d">>, T_NA, <<>>, <<>>, T_neg100, <<"u", "4">>, T_SAVE)
Line5 == CsvRow(2, <<"E">>, <<"d">>, <<"k">>, T_Tech, <<"p">>, T_TBD, <<"u", "5">>, T_SAVE)

CsvPool == {Line1, Line2, Line3, Line4, Line5}

\* The source files: 1 to MaxRows lines, in any order, repeats included.
Sources == UNION { [1..n -> CsvPool] : n \in 1..MaxRows }

\* The cell texts pandas.read_csv reads as a missing value (its default
\* na_values, those over the model's alphabet).
NaTokens == { <<>>, T_NA, T_nan, <<"N", "A">>, <<"N", "a", "N">>,
              <<"n", "u", "l", "l">>, <<"N", "U", "L", "L">> }

\* A text column keeps its cells as str, a missing cell is NaN.
ReadText(cell) == IF cell \in NaTokens THEN NaN ELSE Str(cell)

\* pandas parses a column whose present cells are all numerals as float64 and
\* keeps any other column as str objects.
ReadNumber(csv, col, cell) ==
    LET numeric == \A r \in 1..Len(csv) :
                       csv[r][col] \in NaTokens \/ py_float(csv[r][col]).ok
    IN  IF cell \in NaTokens THEN NaN
        ELSE IF numeric THEN Real(py_float(cell).v) ELSE Str(cell)

\* df = pd.read_csv('data/affiliate_links.csv')
read_csv(csv) ==
    [r \in 1..Len(csv) |->
        [LINK_ID |-> csv[r].LINK_ID,
         ADVERTISER |-> ReadText(csv[r].ADVERTISER),
         NAME |-> ReadText(csv[r].NAME),
         DESCRIPTION |-> ReadText(csv[r].DESCRIPTION),
         KEYWORDS |-> ReadText(csv[r].KEYWORDS),
         CATEGORY |-> ReadText(csv[r].CATEGORY),
         PROMOTION_TYPE |-> ReadText(csv[r].PROMOTION_TYPE),
         SEVEN_DAY_EPC |-> ReadNumber(csv, "SEVEN_DAY_EPC", csv[r].SEVEN_DAY_EPC),
         THREE_MONTH_EPC |-> ReadNumber(csv, "THREE_MONTH_EPC", csv[r].THREE_MONTH_EPC),
         CLICK_URL |-> ReadText(csv[r].CLICK_URL),
         COUPON_CODE |-> ReadText(csv[r].COUPON_CODE)]]

\* The rows of frame at the positions in keep, in the frame's order.
TakeRows(frame, keep, from) ==
    LET kept == SelectSeq([r \in 1..Len(frame) |-> r],
                          LAMBDA r : r >= from /\ r \in keep)
    IN  [k \in 1..Len(kept) |-> frame[kept[k]]]

\* drop_duplicates with keep='last': the row kept for a LINK ID is its last.
drop_duplicates_keep_last(frame) ==
    TakeRows(frame,
             { r \in 1..Len(frame) :
                 \A q \in (r + 1)..Len(frame) : frame[q].LINK_ID # frame[r].LINK_ID },
             1)

\* df.drop_duplicates(subset=['LINK ID'], keep='first')
drop_duplicates(frame) ==
    TakeRows(frame,
             { r \in 1..Len(frame) :
                 \A q \in 1..(r - 1) : frame[q].LINK_ID # frame[r].LINK_ID },
             1)

(***************************************************************************)
(* create_embedding_text                                                   *)
(***************************************************************************)
L_Product == <<"P", "r", "o", "d", "u", "c", "t">>
L_Description == <<"D", "e", "s", "c", "r", "i", "p", "t", "i", "o", "n">>
L_Keywords == <<"K", "e", "y", "w", "o", "r", "d", "s">>
L_Category == <<"C", "a", "t", "e", "g", "o", "r", "y">>
L_Type == <<"T", "y", "p", "e">>
ColonSpace == <<":", " ">>
BarSep == <<" ", "|", " ">>

\* What an f-string writes for a value: a str as it is, the float NaN as 'nan'.
Format(x) == IF x.t = "nan" THEN T_nan ELSE x.s

\* pandas.isna of a scalar: true of the float NaN and of None, false of a str.
pd_isna(x) == x.t \in {"nan", "null"}

\* The filter of the join: pd.isna of the text after the first ': ' of a part.
PartIsMissing(part) == pd_isna(Str(str_split(part, ColonSpace)[2]))

create_embedding_text(row) ==
    LET text_parts ==
            << L_Product \o ColonSpace \o Format(row.NAME),
               L_Description \o ColonSpace \o Format(row.DESCRIPTION),
               L_Keywords \o ColonSpace \o Format(row.KEYWORDS),
               L_Category \o ColonSpace \o Format(row.CATEGORY),
               L_Type \o ColonSpace \o Format(row.PROMOTION_TYPE) >>
        kept(part) == ~PartIsMissing(part)
    IN  str_join(SelectSeq(text_parts, kept), BarSep)

\* df['embedding_text'] = df.apply(create_embedding_text, axis=1)
WithEmbeddingText(frame) ==
    [r \in 1..Len(frame) |->
        [row |-> frame[r], embedding_text |-> create_embedding_text(frame[r])]]

(***************************************************************************)
(* The embedding provider and the vector distance                          *)
(***************************************************************************)
\* An embedding is a unit vector at 0, 45, 90 or 135 degrees, named 0..3.
\* The provider is a black box that gives equal texts equal vectors.
ProviderEmbed(text) == Len(text) % 4

\* get_embeddings(texts): one provider request for the whole list.
get_embeddings(texts) == [t \in 1..Len(texts) |-> ProviderEmbed(texts[t])]

\* sqlite-vec's vec_distance_cosine, in thousandths: 1 - cos of the angle.
vec_distance_cosine(a, b) ==
    LET d == IF a >= b THEN a - b ELSE b - a
    IN  CASE d = 0 -> 0 [] d = 1 -> 293 [] d = 2 -> 1000 [] d = 3 -> 1707

(***************************************************************************)
(* The database file data/affiliate_links.db                               *)
(***************************************************************************)
NoTable == [exists |-> FALSE, rows |-> {}]
EmptyTable == [exists |-> TRUE, rows |-> {}]

\* INSERT OR REPLACE on a table keyed by link_id.
InsertOrReplace(table, rec) ==
    [exists |-> TRUE,
     rows |-> { r \in table.rows : r.link_id # rec.link_id } \cup {rec}]

\* The values bound to the INSERT into affiliate_links for row r of the frame,
\* as the columns' affinities store them.
AffRecord(frame, embeddings, r) ==
    LET row == frame[r].row IN
    [link_id |-> row.LINK_ID,
     advertiser |-> Bind(row.ADVERTISER),
     name |-> Bind(row.NAME),
     description |-> Bind(row.DESCRIPTION),
     keywords |-> Bind(row.KEYWORDS),
     category |-> Bind(row.CATEGORY),
     promotion_type |-> Bind(row.PROMOTION_TYPE),
     epc_7day |-> RealAffinity(Bind(row.SEVEN_DAY_EPC)),
     epc_3month |-> RealAffinity(Bind(row.THREE_MONTH_EPC)),
     click_url |-> Bind(row.CLICK_URL),
     coupon_code |-> Bind(row.COUPON_CODE),
     embedding_text |-> Str(frame[r].embedding_text),
     embedding |-> embeddings[r]]

\* The values bound to the INSERT into vec_links for row r of the frame.
VecRecord(frame, embeddings, r) ==
    [link_id |-> frame[r].row.LINK_ID, embedding |-> embeddings[r]]

LinkIds(table) == { r.link_id : r \in table.rows }

(***************************************************************************)
(* State                                                                   *)
(***************************************************************************)
VARIABLES
    db,              \* the committed database: the tables affiliate_links, vec_links
    txn,             \* the loader connection's open transaction (its uncommitted tables)
    pc,              \* where the loader process is
    source,          \* the CSV file the run reads
    df,              \* the loader's frame
    all_embeddings,  \* the vectors the loader has collected
    i,               \* the loader's batch offset
    n,               \* the frame row the insert loop is at
    resp,            \* the response of the tool call just made
    other,           \* a second loader process on the same database file
    chat             \* the coach's process_message_with_mcp call

vars == <<db, txn, pc, source, df, all_embeddings, i, n, resp, other, chat>>

loader == <<pc, source, df, all_embeddings, i, n>>

batch_size == 100

NoTxn == [open |-> FALSE, aff |-> NoTable, vec |-> NoTable]
NoResp ==
    [op |-> "none", query |-> <<>>, limit |-> 0, min_epc |-> Null,
     category |-> Null, status |-> "none", error |-> "none", rows |-> <<>>,
     calls |-> <<>>]

\* No second loader process has been started.
NoRun ==
    [pc |-> "idle", source |-> <<>>, df |-> <<>>, all_embeddings |-> <<>>,
     n |-> 0, txn |-> NoTxn]

\* The coach is not processing a message.
NoChat ==
    [pc |-> "idle", messages |-> <<>>, content |-> <<>>, k |-> 0,
     assistant_message_content |-> <<>>, has_tool_use |-> FALSE,
     sent |-> <<>>]

\* What a tool call gives its caller: the rows it returns, or the exception
\* its handler logs and re-raises.
Returned(rows) == [status |-> "ok", error |-> "none", rows |-> rows]
\* A handler that answers an empty list where the code re-raises.
Raised_AsEmpty(kind) == Returned(<<>>)

Raised(kind) == [status |-> "error", error |-> kind, rows |-> <<>>]

\* A database file that has just been created holds no table.
Init ==
    /\ db = [aff |-> NoTable, vec |-> NoTable]
    /\ txn = NoTxn
    /\ pc = "idle"
    /\ source = <<>>
    /\ df = <<>>
    /\ all_embeddings = <<>>
    /\ i = 0
    /\ n = 0
    /\ resp = NoResp
    /\ other = NoRun
    /\ chat = NoChat

(***************************************************************************)
(* load_affiliate_data, one action per step that can fail or commit        *)
(***************************************************************************)
\* Lines 85-94: read the file, one of csvs, drop the duplicates, build the
\* texts.
Read(csvs) ==
    /\ resp = NoResp
    /\ pc = "idle"
    /\ \E csv \in csvs :
          /\ source' = csv
          /\ df' = WithEmbeddingText(drop_duplicates(read_csv(csv)))
    /\ pc' = "embed"
    /\ i' = 0
    /\ all_embeddings' = <<>>
    /\ resp' = NoResp
    /\ UNCHANGED <<other, chat, db, txn, n>>

ReadSource == Read(Sources)

\* What the provider can send back for a list of texts: one vector per text
\* in the order of the texts or, when it misbehaves, a vector short or a
\* vector too many.
ProviderResponses(texts) ==
    { get_embeddings(texts),
      SubSeq(get_embeddings(texts), 1, Len(texts) - 1),
      Append(get_embeddings(texts), 0) }

\* A batch loop that would write and commit the rows of each batch as soon as
\* the batch is embedded.
EmbedBatch_Committing ==
    /\ resp = NoResp
    /\ pc = "embed"
    /\ i < Len(df)
    /\ LET last == IF i + batch_size < Len(df) THEN i + batch_size ELSE Len(df)
           batch_texts == [t \in 1..(last - i) |-> df[i + t].embedding_text]
           embedded == all_embeddings \o get_embeddings(batch_texts)
           records == { AffRecord(df, embedded, r) : r \in (i + 1)..last }
       IN  /\ all_embeddings' = embedded
           /\ db' = [aff |-> [exists |-> TRUE, rows |-> db.aff.rows \cup records],
                     vec |-> [exists |-> TRUE,
                              rows |-> db.vec.rows \cup
                                  { VecRecord(df, embedded, r) : r \in (i + 1)..last }]]
    /\ i' = i + batch_size
    /\ resp' = NoResp
    /\ UNCHANGED <<other, chat, txn, pc, source, df, n>>

\* Lines 101-107: one pass of the batch loop.
EmbedBatch ==
    /\ resp = NoResp
    /\ pc = "embed"
    /\ i < Len(df)
    /\ LET last == IF i + batch_size < Len(df) THEN i + batch_size ELSE Len(df)
           batch_texts == [t \in 1..(last - i) |-> df[i + t].embedding_text]
       IN  \E embeddings \in ProviderResponses(batch_texts) :
               all_embeddings' = all_embeddings \o embeddings
    /\ i' = i + batch_size
    /\ resp' = NoResp
    /\ UNCHANGED <<other, chat, db, txn, pc, source, df, n>>

\* Lines 110 and 40-45: the loop is over, the vectors become a column of the
\* frame (pandas raises when their number is not the frame's length) and the
\* connection is opened.
Connect ==
    /\ resp = NoResp
    /\ pc = "embed"
    /\ i >= Len(df)
    /\ Len(all_embeddings) = Len(df)
    /\ pc' = "drop_vec"
    /\ resp' = NoResp
    /\ UNCHANGED <<other, chat, db, txn, source, df, all_embeddings, i, n>>

\* Lines 48-79. The sqlite3 module opens no transaction before a DROP or a
\* CREATE: each takes effect in the database file as it is executed. SQLite
\* lets one connection write at a time: a statement that writes waits while
\* another process holds an open transaction.
DropVecLinks ==
    /\ resp = NoResp
    /\ pc = "drop_vec"
    /\ ~other.txn.open
    /\ db' = [db EXCEPT !.vec = NoTable]
    /\ pc' = "drop_aff"
    /\ resp' = NoResp
    /\ UNCHANGED <<other, chat, txn, source, df, all_embeddings, i, n>>

DropAffiliateLinks ==
    /\ resp = NoResp
    /\ pc = "drop_aff"
    /\ ~other.txn.open
    /\ db' = [db EXCEPT !.aff = NoTable]
    /\ pc' = "create_aff"
    /\ resp' = NoResp
    /\ UNCHANGED <<other, chat, txn, source, df, all_embeddings, i, n>>

CreateAffiliateLinks ==
    /\ resp = NoResp
    /\ pc = "create_aff"
    /\ ~other.txn.open
    /\ ~db.aff.exists
    /\ db' = [db EXCEPT !.aff = EmptyTable]
    /\ pc' = "create_vec"
    /\ resp' = NoResp
    /\ UNCHANGED <<other, chat, txn, source, df, all_embeddings, i, n>>

CreateVecLinks ==
    /\ resp = NoResp
    /\ pc = "create_vec"
    /\ ~other.txn.open
    /\ ~db.vec.exists
    /\ db' = [db EXCEPT !.vec = EmptyTable]
    /\ pc' = "insert_aff"
    /\ n' = 1
    /\ resp' = NoResp
    /\ UNCHANGED <<other, chat, txn, source, df, all_embeddings, i>>

\* The tables as the loader's connection sees them: its own uncommitted
\* writes when a transaction is open.
Working == IF txn.open THEN txn ELSE [open |-> TRUE, aff |-> db.aff, vec |-> db.vec]

\* An INSERT that would be committed as it is executed.
InsertAffiliateLink_Autocommit ==
    /\ resp = NoResp
    /\ pc = "insert_aff"
    /\ n <= Len(df)
    /\ db' = [db EXCEPT
                !.aff = InsertOrReplace(@, AffRecord(df, all_embeddings, n))]
    /\ pc' = "insert_vec"
    /\ resp' = NoResp
    /\ UNCHANGED <<other, chat, txn, source, df, all_embeddings, i, n>>

\* Lines 119-139: the sqlite3 module begins a transaction before the first
\* INSERT; nothing is committed until line 147.
InsertAffiliateLink ==
    /\ resp = NoResp
    /\ pc = "insert_aff"
    /\ ~other.txn.open
    /\ Working.aff.exists
    /\ n <= Len(df)
    /\ txn' = [Working EXCEPT
                 !.aff = InsertOrReplace(@, AffRecord(df, all_embeddings, n))]
    /\ pc' = "insert_vec"
    /\ resp' = NoResp
    /\ UNCHANGED <<other, chat, db, source, df, all_embeddings, i, n>>

\* Lines 142-145.
InsertVecLink ==
    /\ resp = NoResp
    /\ pc = "insert_vec"
    /\ ~other.txn.open
    /\ Working.vec.exists
    /\ txn' = [Working EXCEPT
                 !.vec = InsertOrReplace(@, VecRecord(df, all_embeddings, n))]
    /\ n' = n + 1
    /\ pc' = "insert_aff"
    /\ resp' = NoResp
    /\ UNCHANGED <<other, chat, db, source, df, all_embeddings, i>>

\* A commit that would write affiliate_links alone.
Commit_AffiliateOnly ==
    /\ resp = NoResp
    /\ pc = "insert_aff"
    /\ n > Len(df)
    /\ db' = [db EXCEPT !.aff = Working.aff]
    /\ txn' = NoTxn
    /\ pc' = "index"
    /\ resp' = NoResp
    /\ UNCHANGED <<other, chat, source, df, all_embeddings, i, n>>

\* Line 147.
Commit ==
    /\ resp = NoResp
    /\ pc = "insert_aff"
    /\ n > Len(df)
    /\ db' = [aff |-> Working.aff, vec |-> Working.vec]
    /\ txn' = NoTxn
    /\ pc' = "index"
    /\ resp' = NoResp
    /\ UNCHANGED <<other, chat, source, df, all_embeddings, i, n>>

\* Lines 151-155: the two indexes change no row of either table.
CreateIndexes ==
    /\ resp = NoResp
    /\ pc = "index"
    /\ ~other.txn.open
    /\ pc' = "done"
    /\ resp' = NoResp
    /\ UNCHANGED <<other, chat, db, txn, source, df, all_embeddings, i, n>>

\* Any step can raise: the file cannot be read, the provider refuses a batch,
\* the database is locked or unwritable. Nothing catches the exception; the
\* process ends and the connection is closed with its transaction rolled back.
FailingSteps ==
    {"idle", "embed", "drop_vec", "drop_aff", "create_aff", "create_vec",
     "insert_aff", "insert_vec", "index"}

StepFails ==
    /\ resp = NoResp
    /\ pc \in FailingSteps
    /\ pc' = "failed"
    /\ txn' = NoTxn
    /\ resp' = NoResp
    /\ UNCHANGED <<other, chat, db, source, df, all_embeddings, i, n>>

\* The process is gone; a later run starts afresh.
Exit ==
    /\ resp = NoResp
    /\ pc \in {"done", "failed"}
    /\ pc' = "idle"
    /\ source' = <<>>
    /\ df' = <<>>
    /\ all_embeddings' = <<>>
    /\ i' = 0
    /\ n' = 0
    /\ txn' = NoTxn
    /\ resp' = NoResp
    /\ UNCHANGED <<other, chat, db>>

(***************************************************************************)
(* The tool operations of affiliate_mcp_server.py                          *)
(***************************************************************************)
\* Python's truth value of a column value.
Truthy(x) ==
    CASE x.t = "null" -> FALSE
      [] x.t = "str" -> x.s # <<>>
      [] x.t = "real" -> x.n # 0
      [] x.t = "nan" -> TRUE

T_USD == <<" ", "U", "S", "D">>

\* Line 103, the 'epc' of a search result:
\*   float(r[5].replace('$', '').replace(' USD', ''))
\*       if r[5] and isinstance(r[5], str) else (float(r[5]) if r[5] else 0.0)
\* ok is FALSE when float() raises ValueError.
SearchEpc(x) ==
    IF Truthy(x) /\ x.t = "str"
    THEN py_float(str_replace(str_replace(x.s, <<"$">>, <<>>), T_USD, <<>>))
    ELSE IF Truthy(x) THEN [ok |-> TRUE, v |-> x.n] ELSE [ok |-> TRUE, v |-> 0]

\* The 'epc' taken as SQL's CAST takes it: the numeric prefix of a text.
TopEpc_NumericPrefix(x) ==
    IF Truthy(x) /\ x.t = "str"
    THEN [ok |-> TRUE, v |-> NumericPrefix(LStrip(x.s)).v]
    ELSE IF Truthy(x) THEN [ok |-> TRUE, v |-> x.n] ELSE [ok |-> TRUE, v |-> 0]

\* Line 183, the 'epc' of a top product: the same expression.
TopEpc(x) ==
    IF Truthy(x) /\ x.t = "str"
    THEN py_float(str_replace(str_replace(x.s, <<"$">>, <<>>), T_USD, <<>>))
    ELSE IF Truthy(x) THEN [ok |-> TRUE, v |-> x.n] ELSE [ok |-> TRUE, v |-> 0]

\* The sequences that list every element of S once.
Listings(S) ==
    { f \in [1..Cardinality(S) -> S] :
        \A a, b \in 1..Cardinality(S) : a # b => f[a] # f[b] }

\* SQL LIMIT k: a negative k is no limit at all.
Limit(rows, k) ==
    IF k < 0 \/ k >= Len(rows) THEN rows ELSE SubSeq(rows, 1, k)

\* SQL's  x >= ?  and  x = ?  are true only of a value that is not NULL.
SqlGe(x, t) == x.t = "real" /\ x.n >= t.n
SqlEq(x, c) == x.t = "str" /\ x.s = c.s

\* Lines 67-74: FROM vec_links v JOIN affiliate_links a ON v.link_id = a.link_id
\* with the distance of each vector to the query's.
Joined(d, query_embedding) ==
    { [a |-> a, distance |-> vec_distance_cosine(v.embedding, query_embedding)] :
        <<v, a>> \in { p \in d.vec.rows \X d.aff.rows : p[1].link_id = p[2].link_id } }

\* Lines 76-88: the WHERE clause. min_epc is a condition when it is not None,
\* category when it is truthy.
SearchWhere(r, min_epc, category) ==
    /\ min_epc.t # "null" => SqlGe(CastReal(r.a.epc_7day), min_epc)
    /\ Truthy(category) => SqlEq(r.a.category, category)

\* ORDER BY distance: any order of the rows in which the distance never
\* decreases (SQL leaves the order of equal distances open).
OrderByDistance(S) ==
    { f \in Listings(S) :
        \A a, b \in 1..Len(f) : a < b => f[a].distance <= f[b].distance }

\* The statement with the filters applied to the num_results nearest rows
\* instead of before the LIMIT.
SearchRows_LimitThenFilter(d, query_embedding, num_results, min_epc, category) ==
    LET pass(r) == SearchWhere(r, min_epc, category)
    IN  { SelectSeq(Limit(f, num_results), pass) :
            f \in OrderByDistance(Joined(d, query_embedding)) }

\* Lines 90-93: the rows the statement returns.
SearchRows(d, query_embedding, num_results, min_epc, category) ==
    { Limit(f, num_results) :
        f \in OrderByDistance({ r \in Joined(d, query_embedding) :
                                   SearchWhere(r, min_epc, category) }) }

\* The formatting with a url made up from the record's name instead of the
\* stored click_url.
FormatSearchRow_TemplatedUrl(r) ==
    [name |-> r.a.name,
     description |-> r.a.description,
     category |-> r.a.category,
     url |-> Str(<<"u", "/">> \o r.a.name.s),
     coupon |-> IF Truthy(r.a.coupon_code) THEN r.a.coupon_code ELSE Null,
     epc |-> SearchEpc(r.a.epc_7day).v,
     relevance |-> 1000 - r.distance]

\* Lines 97-107 (the two display strings built from name, url and coupon are
\* left out).
FormatSearchRow(r) ==
    [name |-> r.a.name,
     description |-> r.a.description,
     category |-> r.a.category,
     url |-> r.a.click_url,
     coupon |-> IF Truthy(r.a.coupon_code) THEN r.a.coupon_code ELSE Null,
     epc |-> SearchEpc(r.a.epc_7day).v,
     relevance |-> 1000 - r.distance]

\* What search_products can answer once the provider has embedded the query:
\* the formatted rows, or the exception of the statement (a table is missing)
\* or of the formatting (float() raises), which line 117 re-raises.
SearchOutcomes(d, query, num_results, min_epc, category) ==
    IF ~(d.vec.exists /\ d.aff.exists)
    THEN { Raised("OperationalError") }
    ELSE { IF \A x \in 1..Len(rows) : SearchEpc(rows[x].a.epc_7day).ok
           THEN Returned([x \in 1..Len(rows) |-> FormatSearchRow(rows[x])])
           ELSE Raised("ValueError") :
             rows \in SearchRows(d, ProviderEmbed(query), num_results,
                                 min_epc, category) }

\* ORDER BY CAST(epc_7day AS REAL) DESC: NULL sorts after every number.
DescBefore(x, y) == y.t = "null" \/ (x.t = "real" /\ x.n >= y.n)

OrderByEpcDesc(S) ==
    { f \in Listings(S) :
        \A a, b \in 1..Len(f) :
            a < b => DescBefore(CastReal(f[a].epc_7day), CastReal(f[b].epc_7day)) }

\* Lines 155-175: the category is a condition when it is truthy.
TopRows(d, category, limit) ==
    { Limit(f, limit) :
        f \in OrderByEpcDesc({ a \in d.aff.rows :
                                  Truthy(category) => SqlEq(a.category, category) }) }

\* Lines 177-186.
FormatTopRow(a) ==
    [name |-> a.name,
     description |-> a.description,
     category |-> a.category,
     url |-> a.click_url,
     coupon |-> IF Truthy(a.coupon_code) THEN a.coupon_code ELSE Null,
     epc |-> TopEpc(a.epc_7day).v]

TopOutcomes(d, category, limit) ==
    IF ~d.aff.exists
    THEN { Raised("OperationalError") }
    ELSE { IF \A x \in 1..Len(rows) : TopEpc(rows[x].epc_7day).ok
           THEN Returned([x \in 1..Len(rows) |-> FormatTopRow(rows[x])])
           ELSE Raised("ValueError") :
             rows \in TopRows(d, category, limit) }

\* Lines 125-131: one group per category that is not NULL, with its number of
\* records.
CategoryGroups_WithNull(d) ==
    { [category |-> c, count |-> Cardinality({ a \in d.aff.rows : a.category = c })] :
        c \in { a.category : a \in d.aff.rows } }

CategoryGroups(d) ==
    { [category |-> c, count |-> Cardinality({ a \in d.aff.rows : a.category = c })] :
        c \in { a.category : a \in { b \in d.aff.rows : b.category.t # "null" } } }

\* ORDER BY count ASC: the groups listed with the count never decreasing.
RECURSIVE OrderByCountAsc(_)
OrderByCountAsc(G) ==
    IF G = {} THEN { <<>> }
    ELSE UNION { { <<g>> \o rest : rest \in OrderByCountAsc(G \ {g}) } :
                   g \in { x \in G : \A y \in G : x.count <= y.count } }

\* ORDER BY count DESC: any listing of the groups in which the count never
\* increases (SQL leaves the order of equal counts open).
RECURSIVE OrderByCountDesc(_)
OrderByCountDesc(G) ==
    IF G = {} THEN { <<>> }
    ELSE UNION { { <<g>> \o rest : rest \in OrderByCountDesc(G \ {g}) } :
                   g \in { x \in G : \A y \in G : x.count >= y.count } }

\* Line 133.
FormatCategory(g) == [category |-> g.category, product_count |-> g.count]

\* What get_categories can answer when its statement is executed.
CategoriesOutcomes(d) ==
    IF ~d.aff.exists
    THEN { Raised("OperationalError") }
    ELSE { Returned([x \in 1..Len(f) |-> FormatCategory(f[x])]) :
             f \in OrderByCountDesc(CategoryGroups(d)) }

RECURSIVE SumReal(_)
SumReal(S) ==
    IF S = {} THEN 0
    ELSE LET a == CHOOSE x \in S : TRUE
         IN  CastReal(a.epc_7day).n + SumReal(S \ {a})

\* round(total / count, 2) in hundredths: the nearest hundredth, either
\* neighbour when the quotient lies halfway between two (the float that
\* stands for the quotient decides).
RoundedMean(total, count) ==
    LET q == total \div count
        r == total - q * count
    IN  IF 2 * r < count THEN {q}
        ELSE IF 2 * r > count THEN {q + 1} ELSE {q, q + 1}

\* Lines 214-217: AVG(CAST(epc_7day AS REAL)) over the records whose epc_7day
\* is not NULL; 'round(avg_epc, 2) if avg_epc else 0'.
AverageEpc(d) ==
    LET S == { a \in d.aff.rows : a.epc_7day.t # "null" }
    IN  IF S = {} THEN {0} ELSE RoundedMean(SumReal(S), Cardinality(S))

\* The LIMIT 5 of line 231.
TopCategoriesLimit == 5

\* Line 233.
FormatTopCategory(g) == [category |-> g.category, count |-> g.count]

\* Lines 201-236: the stats get_product_stats can build when its five
\* statements are executed.
StatsOutcomes(d) ==
    IF ~d.aff.exists
    THEN { Raised("OperationalError") }
    ELSE { Returned(<< [total_products |-> Cardinality(d.aff.rows),
                        categories |-> Cardinality(CategoryGroups(d)),
                        average_epc |-> avg,
                        products_with_coupons |->
                            Cardinality({ a \in d.aff.rows : a.coupon_code.t # "null" }),
                        top_categories |->
                            [x \in 1..Len(top) |-> FormatTopCategory(top[x])]] >>) :
             avg \in AverageEpc(d),
             top \in { Limit(f, TopCategoriesLimit) :
                         f \in OrderByCountDesc(CategoryGroups(d)) } }

\* The defaults of num_results (line 44) and limit (line 144).
DefaultNumResults == 5
DefaultLimit == 10

\* The arguments the callers of the model pass.
QueryTexts == { <<>>, <<"g">>, <<"g", "i", "f">> }
SearchLimits == {-1, 0, 1, DefaultNumResults}
TopLimits == {-1, 0, 1, 5, DefaultLimit}
MinEpcs == { Null, Real(-100), Real(0), Real(100), Real(200) }
Categories == { Null, Str(T_Books), Str(T_books), Str(T_Tech) }

\* The server answers between the runs of the loader, one call at a time.
ServerReady == pc = "idle" /\ resp = NoResp

\* What can go wrong outside the process during a request: the provider
\* refuses or times out, the database is locked or unreadable.
SearchFaults == {"none", "provider", "store"}
StoreFaults == {"none", "store"}

\* The calls of a search that would query the store before it embeds.
SearchCalls_StoreFirst(d, fault) ==
    IF fault = "store" \/ ~(d.vec.exists /\ d.aff.exists)
    THEN <<"store_failed">>
    ELSE IF fault = "provider" THEN <<"store", "provider_failed">>
         ELSE <<"store", "provider">>

\* The calls of a search that would try the provider a second time.
SearchCalls_Retry(d, fault) ==
    IF fault = "provider" THEN <<"provider_failed", "provider_failed">>
    ELSE IF fault = "store" \/ ~(d.vec.exists /\ d.aff.exists)
         THEN <<"provider", "store_failed">>
         ELSE <<"provider", "store">>

\* The calls search_products makes outside the process, in order: the
\* provider call of lines 60-64, then the statement of line 93. An exception
\* leaves the try block at once.
SearchCalls(d, fault) ==
    IF fault = "provider" THEN <<"provider_failed">>
    ELSE IF fault = "store" \/ ~(d.vec.exists /\ d.aff.exists)
         THEN <<"provider", "store_failed">>
         ELSE <<"provider", "store">>

\* The calls of an operation that executes one statement and calls no
\* provider: get_categories (line 125), get_top_products (line 175).
StatementCalls(d, fault) ==
    IF fault = "store" \/ ~d.aff.exists THEN <<"store_failed">> ELSE <<"store">>

\* The statements of get_product_stats: lines 204, 209, 214, 220, 225.
StatsStatements == 5

\* The calls of get_product_stats when its statement failing is the one
\* numbered failing (0: none fails).
StatsCalls(d, failing) ==
    LET k == IF ~d.aff.exists THEN 1 ELSE failing
    IN  IF k = 0 THEN [x \in 1..StatsStatements |-> "store"]
        ELSE [x \in 1..k |-> IF x = k THEN "store_failed" ELSE "store"]

\* search_products(query, num_results, min_epc, category). The handler of
\* lines 115-117 logs and re-raises whatever the try block raises.
SearchProducts ==
    /\ ServerReady
    /\ \E query \in QueryTexts, num_results \in SearchLimits,
       min_epc \in MinEpcs, category \in Categories, fault \in SearchFaults :
        /\ \E out \in (CASE fault = "provider" -> { Raised("ProviderError") }
                         [] fault = "store" -> { Raised("StoreError") }
                         [] OTHER -> SearchOutcomes(db, query, num_results,
                                                    min_epc, category)) :
              resp' = [op |-> "search_products", query |-> query,
                       limit |-> num_results, min_epc |-> min_epc,
                       category |-> category, status |-> out.status,
                       error |-> out.error, rows |-> out.rows,
                       calls |-> SearchCalls(db, fault)]
        /\ UNCHANGED <<other, chat, db, txn, loader>>

\* The response of an operation that takes no query text.
Response(op, category, limit, out, calls) ==
    [op |-> op, query |-> <<>>, limit |-> limit, min_epc |-> Null,
     category |-> category, status |-> out.status, error |-> out.error,
     rows |-> out.rows, calls |-> calls]

\* One call of get_categories() on the committed database.
CategoriesCall ==
    /\ \E fault \in StoreFaults :
          \E out \in (IF fault = "store" THEN { Raised("StoreError") }
                      ELSE CategoriesOutcomes(db)) :
              resp' = Response("get_categories", Null, 0, out,
                               StatementCalls(db, fault))
    /\ UNCHANGED <<other, chat, db, txn, loader>>

GetCategories == ServerReady /\ CategoriesCall

\* A get_top_products that would take the rows it returns out of the table.
GetTopProducts_Deleting ==
    /\ ServerReady
    /\ \E category \in Categories, limit \in TopLimits :
        /\ \E out \in TopOutcomes(db, category, limit) :
              /\ resp' = Response("get_top_products", category, limit, out,
                                  StatementCalls(db, "none"))
              /\ db' = [db EXCEPT !.aff.rows =
                          { a \in @ : \A x \in 1..Len(out.rows) :
                                         a.click_url # out.rows[x].url }]
        /\ UNCHANGED <<other, chat, txn, loader>>

\* get_top_products(category, limit)
GetTopProducts ==
    /\ ServerReady
    /\ \E category \in Categories, limit \in TopLimits, fault \in StoreFaults :
        /\ \E out \in (IF fault = "store" THEN { Raised("StoreError") }
                       ELSE TopOutcomes(db, category, limit)) :
              resp' = Response("get_top_products", category, limit, out,
                               StatementCalls(db, fault))
        /\ UNCHANGED <<other, chat, db, txn, loader>>

\* A get_product_stats that would keep a record of each request in the
\* table it reads.
GetProductStats_Logging ==
    /\ ServerReady
    /\ \E out \in StatsOutcomes(db) :
          /\ resp' = Response("get_product_stats", Null, 0, out,
                              StatsCalls(db, 0))
          /\ db' = [db EXCEPT !.aff.rows =
                      @ \cup { [link_id |-> 0 - Cardinality(@), category |-> Null,
                                epc_7day |-> Null, coupon_code |-> Null] }]
    /\ UNCHANGED <<other, chat, txn, loader>>

\* get_product_stats()
GetProductStats ==
    /\ ServerReady
    /\ \E failing \in 0..StatsStatements :
        /\ \E out \in (IF failing > 0 THEN { Raised("StoreError") }
                       ELSE StatsOutcomes(db)) :
              resp' = Response("get_product_stats", Null, 0, out,
                               StatsCalls(db, failing))
        /\ UNCHANGED <<other, chat, db, txn, loader>>

\* The caller takes the response.
Return ==
    /\ resp # NoResp
    /\ resp' = NoResp
    /\ UNCHANGED <<other, chat, db, txn, loader>>

Next ==
    \/ ReadSource
    \/ EmbedBatch
    \/ Connect
    \/ DropVecLinks
    \/ DropAffiliateLinks
    \/ CreateAffiliateLinks
    \/ CreateVecLinks
    \/ InsertAffiliateLink
    \/ InsertVecLink
    \/ Commit
    \/ CreateIndexes
    \/ StepFails
    \/ Exit
    \/ SearchProducts
    \/ GetCategories
    \/ GetTopProducts
    \/ GetProductStats
    \/ Return

Spec == Init /\ [][Next]_vars

(***************************************************************************)
(* Ingestion: the claims                                                   *)
(***************************************************************************)
RunEnded == pc \in {"done", "failed"}

\* The number of rows of a table that carry link_id id.
Occurrences(table, id) == Cardinality({ r \in table.rows : r.link_id = id })

\* C1: once an ingestion run has ended, completed or aborted at any step, the
\* committed affiliate_links and vec_links hold the same set of link_id
\* values, each of them once in each table.
C1_StoresAgreeAfterRun ==
    RunEnded =>
        /\ LinkIds(db.aff) = LinkIds(db.vec)
        /\ \A id \in LinkIds(db.aff) \cup LinkIds(db.vec) :
              Occurrences(db.aff, id) = 1 /\ Occurrences(db.vec, id) = 1

\* The position of the first line of the source that carries LINK ID id.
FirstLine(csv, id) ==
    CHOOSE r \in 1..Len(csv) :
        /\ csv[r].LINK_ID = id
        /\ \A q \in 1..(r - 1) : csv[q].LINK_ID # id

\* The record of line r of the source as it is read, embedded and bound,
\* had no line been dropped.
RecordOfLine(csv, r) ==
    LET frame == WithEmbeddingText(read_csv(csv))
        embeddings == [x \in 1..Len(frame) |-> ProviderEmbed(frame[x].embedding_text)]
    IN  AffRecord(frame, embeddings, r)

\* C2: a completed ingestion stores exactly one record per distinct LINK ID
\* of the source, and that record carries the attributes of the first line
\* with that LINK ID; a later line with the same LINK ID never replaces it.
C2_FirstOccurrenceStored ==
    pc = "done" =>
        /\ LinkIds(db.aff) = { source[r].LINK_ID : r \in 1..Len(source) }
        /\ \A id \in LinkIds(db.aff) :
              /\ Occurrences(db.aff, id) = 1
              /\ RecordOfLine(source, FirstLine(source, id)) \in db.aff.rows

\* A completed run whose source repeats a LINK ID with other attributes.
C2_Witness ==
    /\ pc = "done"
    /\ \E a, b \in 1..Len(source) :
          a < b /\ source[a].LINK_ID = source[b].LINK_ID /\ source[a] # source[b]

\* The text the documentation describes: the labeled segment of a field is
\* there if and only if the field is not missing.
SegmentsOfPresentFields(row) ==
    LET seg(label, x) == IF pd_isna(x) THEN <<>> ELSE <<label \o ColonSpace \o x.s>>
    IN  str_join(seg(L_Product, row.NAME) \o seg(L_Description, row.DESCRIPTION)
                   \o seg(L_Keywords, row.KEYWORDS) \o seg(L_Category, row.CATEGORY)
                   \o seg(L_Type, row.PROMOTION_TYPE),
                 BarSep)

\* C3: the embedding text of every row is the segments Product, Description,
\* Keywords, Category, Type, in that order and joined by ' | ', of exactly
\* the fields that are not null: a null field yields no segment.
C3_NullFieldsYieldNoSegment ==
    \A r \in 1..Len(df) :
        df[r].embedding_text = SegmentsOfPresentFields(df[r].row)

(***************************************************************************)
(* The tool operations: the claims                                         *)
(***************************************************************************)
Answered(op) == resp.op = op /\ resp.status = "ok"

Min(a, b) == IF a <= b THEN a ELSE b

\* C4: every result of search_products(..., min_epc=t) carries an 'epc', the
\* normalized epc_7day, that is at least t.
C4_ResultsMeetMinEpc ==
    (Answered("search_products") /\ resp.min_epc.t # "null") =>
        \A x \in 1..Len(resp.rows) : resp.rows[x].epc >= resp.min_epc.n

\* The normalized epc_7day of a record: the currency text parsed, 0.0 for an
\* absent or unparseable value.
NormalizedEpc(x) == IF SearchEpc(x).ok THEN SearchEpc(x).v ELSE 0

\* The records that pass min_epc on their normalized epc_7day and category on
\* exact equality, each when it is given.
PassingNormalized(min_epc, category) ==
    { a \in db.aff.rows :
        /\ min_epc.t # "null" => NormalizedEpc(a.epc_7day) >= min_epc.n
        /\ category.t # "null" => a.category = category }

\* C5: with a positive limit k, search_products returns exactly min(k, N)
\* results, N being the number of records whose normalized epc_7day is at
\* least min_epc (when given) and whose category is the given one (when
\* given).
C5_ReturnsMinOfLimitAndPassing ==
    (Answered("search_products") /\ resp.limit > 0) =>
        Len(resp.rows) =
            Min(resp.limit,
                Cardinality(PassingNormalized(resp.min_epc, resp.category)))

\* The joined rows that pass the WHERE clause of the answered search.
Candidates ==
    { r \in Joined(db, ProviderEmbed(resp.query)) :
        SearchWhere(r, resp.min_epc, resp.category) }

RowsOf(response) == { response.rows[x] : x \in 1..Len(response.rows) }

\* C6: search_products filters before it truncates: its rows are in
\* non-increasing relevance (non-decreasing distance), a positive limit k
\* returns min(k, number of rows passing the filters) rows, and no row that
\* passes the filters and is not returned is strictly nearer than a returned
\* row.
C6_FilterBeforeTruncate ==
    Answered("search_products") =>
        /\ \A x, y \in 1..Len(resp.rows) :
              x < y => resp.rows[x].relevance >= resp.rows[y].relevance
        /\ resp.limit > 0 =>
              Len(resp.rows) = Min(resp.limit, Cardinality(Candidates))
        /\ \A r \in Candidates :
              FormatSearchRow(r) \notin RowsOf(resp) =>
                  \A x \in 1..Len(resp.rows) :
                      1000 - resp.rows[x].relevance <= r.distance

\* A search with a filter whose LIMIT cut a passing row off, a nearer row
\* having been filtered out.
C6_Witness ==
    /\ Answered("search_products")
    /\ resp.min_epc.t # "null" \/ resp.category.t # "null"
    /\ Len(resp.rows) >= 1
    /\ \E r \in Candidates : FormatSearchRow(r) \notin RowsOf(resp)
    /\ \E r \in Joined(db, ProviderEmbed(resp.query)) :
          /\ r \notin Candidates
          /\ r.distance < 1000 - resp.rows[1].relevance

Outcome(response) ==
    [status |-> response.status, error |-> response.error, rows |-> response.rows]

\* C7: a limit that is zero or negative is replaced by the default:
\* search_products answers as with num_results = 5, get_top_products as with
\* limit = 10.
C7_NonPositiveLimitIsDefault ==
    /\ (Answered("search_products") /\ resp.limit <= 0) =>
          Outcome(resp) \in SearchOutcomes(db, resp.query, DefaultNumResults,
                                           resp.min_epc, resp.category)
    /\ (Answered("get_top_products") /\ resp.limit <= 0) =>
          Outcome(resp) \in TopOutcomes(db, resp.category, DefaultLimit)

\* The stored epc_7day of the record a returned row was made of.
StoredEpc(x) == (CHOOSE a \in db.aff.rows : a.click_url = x.url).epc_7day

\* The three-record catalog as it is stored.
ScenarioSource == <<Line1, Line2, Line3>>
ScenarioRecords == { RecordOfLine(ScenarioSource, r) : r \in 1..3 }

\* C8: get_top_products returns the records of the given category, at most
\* limit of them, in descending order of the 'epc' it returns, those without
\* epc_7day last; on the three-record catalog, category 'Books' and limit 5
\* give record 1 (epc 2.0) and then record 2 (epc 1.5).
C8_TopByNormalizedEpc ==
    Answered("get_top_products") =>
        /\ \A x, y \in 1..Len(resp.rows) :
              x < y =>
                  /\ StoredEpc(resp.rows[x]) = Null => StoredEpc(resp.rows[y]) = Null
                  /\ (StoredEpc(resp.rows[x]) # Null /\ StoredEpc(resp.rows[y]) # Null)
                         => resp.rows[x].epc >= resp.rows[y].epc
        /\ resp.category.t # "null" =>
              \A x \in 1..Len(resp.rows) : resp.rows[x].category = resp.category
        /\ resp.limit >= 0 => Len(resp.rows) <= resp.limit
        /\ (db.aff.rows = ScenarioRecords /\ resp.category = Str(T_Books)
                /\ resp.limit = 5) =>
              /\ Len(resp.rows) = 2
              /\ resp.rows[1].name = Str(<<"A">>) /\ resp.rows[1].epc = 200
              /\ resp.rows[2].name = Str(<<"B">>) /\ resp.rows[2].epc = 150

\* A stored epc_7day that is a non-empty text and no number once '$' and
\* ' USD' are taken out.
Unparseable(x) == x.t = "str" /\ x.s # <<>> /\ ~SearchEpc(x).ok

\* C10: a record whose stored epc_7day is an unparseable text is returned with
\* epc 0.0: no request fails on it.
C10_UnparseableEpcIsZero ==
    /\ resp.error # "ValueError"
    /\ (Answered("search_products") \/ Answered("get_top_products")) =>
          \A x \in 1..Len(resp.rows) :
              Unparseable(StoredEpc(resp.rows[x])) => resp.rows[x].epc = 0

(***************************************************************************)
(* The 'epc' as a function of the raw epc_7day                             *)
(***************************************************************************)
\* The largest whole amount of the raw values the function is applied to.
MaxUnits == 2

Digits == <<"0", "1", "2", "3", "4", "5", "6", "7", "8", "9">>

RECURSIVE NatText(_)
NatText(x) ==
    IF x < 10 THEN <<Digits[x + 1]>>
    ELSE NatText(x \div 10) \o <<Digits[(x % 10) + 1]>>

\* 150 is written '1.50'.
DecimalText(x) ==
    NatText(x \div 100) \o <<".", Digits[((x % 100) \div 10) + 1], Digits[(x % 10) + 1]>>

\* 150 is written '$1.50 USD'.
CurrencyText(x) == <<"$">> \o DecimalText(x) \o T_USD

Amounts == { 100 * u + c : u \in 0..MaxUnits, c \in {0, 5, 50, 99} }

RawEpcs ==
    { Null, Str(<<>>), Str(T_cur123), Str(T_num45), Str(T_TBD) }
        \cup { Str(CurrencyText(x)) : x \in Amounts }
        \cup { Str(DecimalText(x)) : x \in Amounts }
        \cup { Real(x) : x \in Amounts }
        \cup { Real(0 - x) : x \in Amounts }

\* A database of one record whose epc_7day is the raw value.
EpcStore(raw) ==
    [aff |-> [exists |-> TRUE,
              rows |-> { [RecordOfLine(<<Line1>>, 1) EXCEPT !.epc_7day = raw] }],
     vec |-> [exists |-> TRUE,
              rows |-> { [link_id |-> 1,
                          embedding |-> RecordOfLine(<<Line1>>, 1).embedding] }]]

InitEpc ==
    /\ db \in { EpcStore(raw) : raw \in RawEpcs }
    /\ txn = NoTxn
    /\ pc = "idle"
    /\ source = <<>>
    /\ df = <<>>
    /\ all_embeddings = <<>>
    /\ i = 0
    /\ n = 0
    /\ resp = NoResp
    /\ other = NoRun
    /\ chat = NoChat

NextEpc == SearchProducts \/ GetTopProducts \/ Return

SpecEpc == InitEpc /\ [][NextEpc]_vars

TheRaw == (CHOOSE a \in db.aff.rows : TRUE).epc_7day

\* C9: the 'epc' of a result is a function of the raw epc_7day alone, the
\* same in search_products and get_top_products: '$1.23 USD' gives 1.23,
\* '4.5' gives 4.5, a currency text or a numeral its amount, a number itself,
\* null and the empty text 0.0.
C9_EpcIsFunctionOfRaw ==
    ((Answered("search_products") \/ Answered("get_top_products"))
        /\ Len(resp.rows) > 0) =>
        LET e == resp.rows[1].epc IN
        /\ TheRaw = Str(T_cur123) => e = 123
        /\ TheRaw = Str(T_num45) => e = 450
        /\ TheRaw \in {Null, Str(<<>>)} => e = 0
        /\ \A x \in Amounts :
              /\ TheRaw = Str(CurrencyText(x)) => e = x
              /\ TheRaw = Str(DecimalText(x)) => e = x
              /\ TheRaw = Real(x) => e = x
              /\ TheRaw = Real(0 - x) => e = 0 - x

\* get_top_products has returned the record whose epc_7day is '$1.23 USD'.
C9_Witness ==
    /\ Answered("get_top_products")
    /\ Len(resp.rows) > 0
    /\ TheRaw = Str(T_cur123)
    /\ resp.rows[1].epc = 123

(***************************************************************************)
(* get_product_stats and get_categories: the claims                        *)
(***************************************************************************)
RECURSIVE SumNormalized(_)
SumNormalized(S) ==
    IF S = {} THEN 0
    ELSE LET a == CHOOSE x \in S : TRUE
         IN  NormalizedEpc(a.epc_7day) + SumNormalized(S \ {a})

\* The stats of an answered get_product_stats.
TheStats == resp.rows[1]

\* C11: average_epc is the mean, rounded to 2 decimals, of the parsed
\* (currency-normalized) epc_7day of the records whose epc_7day is not null,
\* and 0 when there is none; on the three-record catalog the stats are
\* total_products 3, categories 2, average_epc 1.75, products_with_coupons 0.
C11_AverageOfParsedEpc ==
    Answered("get_product_stats") =>
        LET S == { a \in db.aff.rows : a.epc_7day.t # "null" } IN
        /\ TheStats.average_epc \in
              (IF S = {} THEN {0} ELSE RoundedMean(SumNormalized(S), Cardinality(S)))
        /\ db.aff.rows = ScenarioRecords =>
              /\ TheStats.total_products = 3
              /\ TheStats.categories = 2
              /\ TheStats.average_epc = 175
              /\ TheStats.products_with_coupons = 0

\* The largest number of categories of the catalogs the two operations are
\* applied to.
MaxCategories == 6

\* The name of category k: 'c1', 'c2', ...
CategoryName(k) == <<"c", Digits[k + 1]>>

\* The numbers of records a category can have.
Multiplicities == {1, 2}

\* A stored record with the given link_id, category and coupon_code.
StatsRecord(id, category, coupon) ==
    [RecordOfLine(<<Line3>>, 1) EXCEPT
        !.link_id = id, !.category = category, !.coupon_code = coupon]

\* The catalog of the categories 1..Len(mult), with mult[k] records of
\* category k, the second record of a category carrying a coupon; with extra,
\* one more record that has no category and carries a coupon.
StatsCatalog(mult, extra) ==
    { StatsRecord(10 * k + j, Str(CategoryName(k)),
                  IF j = 2 THEN Str(T_SAVE) ELSE Null) :
        <<k, j>> \in { p \in (DOMAIN mult) \X (1..2) : p[2] <= mult[p[1]] } }
      \cup (IF extra THEN { StatsRecord(0, Null, Str(T_SAVE)) } ELSE {})

StatsStore(records) ==
    [aff |-> [exists |-> TRUE, rows |-> records],
     vec |-> [exists |-> TRUE,
              rows |-> { [link_id |-> a.link_id, embedding |-> a.embedding] :
                           a \in records }]]

InitStats ==
    /\ db \in { StatsStore(StatsCatalog(mult, extra)) :
                  mult \in UNION { [1..c -> Multiplicities] : c \in 0..MaxCategories },
                  extra \in BOOLEAN }
    /\ txn = NoTxn
    /\ pc = "idle"
    /\ source = <<>>
    /\ df = <<>>
    /\ all_embeddings = <<>>
    /\ i = 0
    /\ n = 0
    /\ resp = NoResp
    /\ other = NoRun
    /\ chat = NoChat

NextStats == GetCategories \/ GetProductStats \/ Return

SpecStats == InitStats /\ [][NextStats]_vars

\* The categories of the stored records that are not null, and the number of
\* records of a category.
StoredCategories == { a.category : a \in { b \in db.aff.rows : b.category # Null } }

RecordsOf(c) == Cardinality({ a \in db.aff.rows : a.category = c })

RECURSIVE SumProductCount(_)
SumProductCount(entries) ==
    IF entries = <<>> THEN 0
    ELSE Head(entries).product_count + SumProductCount(Tail(entries))

\* C12: get_categories returns one entry per distinct category that is not
\* null, with the number of its records, in non-increasing order of that
\* number; the numbers add up to the number of records that have a category.
C12_CategoriesWithCounts ==
    Answered("get_categories") =>
        /\ Len(resp.rows) = Cardinality(StoredCategories)
        /\ { resp.rows[x].category : x \in 1..Len(resp.rows) } = StoredCategories
        /\ \A x \in 1..Len(resp.rows) :
              resp.rows[x].product_count = RecordsOf(resp.rows[x].category)
        /\ \A x, y \in 1..Len(resp.rows) :
              x < y => resp.rows[x].product_count >= resp.rows[y].product_count
        /\ SumProductCount(resp.rows) =
              Cardinality({ a \in db.aff.rows : a.category # Null })

\* get_categories has listed categories of different sizes from a catalog
\* that also holds a record without category.
C12_Witness ==
    /\ Answered("get_categories")
    /\ \E a \in db.aff.rows : a.category = Null
    /\ \E x, y \in 1..Len(resp.rows) :
          resp.rows[x].product_count > resp.rows[y].product_count

\* C13: products_with_coupons is the number of records whose coupon_code is
\* not null, categories the number of distinct categories that are not null,
\* and top_categories holds min(5, categories) entries in non-increasing
\* count, no category left out having a larger count than one listed.
C13_CouponsAndTopCategories ==
    Answered("get_product_stats") =>
        LET top == TheStats.top_categories
            listed == { top[x].category : x \in 1..Len(top) }
        IN  /\ TheStats.products_with_coupons =
                  Cardinality({ a \in db.aff.rows : a.coupon_code # Null })
            /\ TheStats.categories = Cardinality(StoredCategories)
            /\ Len(top) = Min(5, Cardinality(StoredCategories))
            /\ Cardinality(listed) = Len(top)
            /\ listed \subseteq StoredCategories
            /\ \A x \in 1..Len(top) : top[x].count = RecordsOf(top[x].category)
            /\ \A x, y \in 1..Len(top) : x < y => top[x].count >= top[y].count
            /\ \A c \in StoredCategories \ listed :
                  \A x \in 1..Len(top) : RecordsOf(c) <= top[x].count

\* get_product_stats has left a category out of top_categories, the catalog
\* holding more than five of different sizes and records with coupons.
C13_Witness ==
    /\ Answered("get_product_stats")
    /\ Cardinality(StoredCategories) > 5
    /\ Len(TheStats.top_categories) = 5
    /\ TheStats.top_categories[1].count > TheStats.top_categories[5].count
    /\ TheStats.products_with_coupons > 0

(***************************************************************************)
(* The url of a result                                                     *)
(***************************************************************************)
\* The lines of the source file that carry the given NAME.
LinesNamed(name) == { line \in CsvPool : Str(line.NAME) = name }

ToolOps == {"search_products", "get_categories", "get_top_products",
            "get_product_stats"}

\* C15: a call of search_products, get_categories, get_top_products or
\* get_product_stats, whether it succeeds or fails, leaves affiliate_links and
\* vec_links as they were.
C15_QueriesAreReadOnly ==
    [][(resp'.op \in ToolOps /\ resp' # resp) => (db' = db /\ txn' = txn)]_vars

\* A call has failed on a loaded catalog.
C15_Witness ==
    /\ resp.op \in ToolOps
    /\ resp.status = "error"
    /\ Cardinality(db.aff.rows) >= 2

ProviderCalls == {"provider", "provider_failed"}

\* C16: a search_products request calls the embedding provider exactly once
\* and before it queries the store; get_categories, get_top_products and
\* get_product_stats never call it.
C16_OneProviderCallFirst ==
    /\ resp.op = "search_products" =>
          /\ Len(resp.calls) >= 1
          /\ resp.calls[1] \in ProviderCalls
          /\ \A x \in 2..Len(resp.calls) : resp.calls[x] \notin ProviderCalls
    /\ resp.op \in ToolOps \ {"search_products"} =>
          \A x \in 1..Len(resp.calls) : resp.calls[x] \notin ProviderCalls

\* A search has embedded its query, queried the store and returned rows.
C16_Witness ==
    /\ Answered("search_products")
    /\ resp.calls = <<"provider", "store">>
    /\ Len(resp.rows) >= 1

\* C17: when the provider call of search_products fails, the request ends in
\* an error raised to the caller: no rows are returned, the store is not
\* queried and the provider is not called again.
C17_ProviderFailureIsFatal ==
    (resp.op = "search_products"
        /\ \E x \in 1..Len(resp.calls) : resp.calls[x] = "provider_failed") =>
        /\ resp.status = "error"
        /\ resp.error = "ProviderError"
        /\ resp.rows = <<>>
        /\ resp.calls = <<"provider_failed">>

\* The provider has failed a search on a loaded catalog.
C17_Witness ==
    /\ resp.op = "search_products"
    /\ resp.calls = <<"provider_failed">>
    /\ db.aff.rows # {}

\* C18: in each of the four operations a statement that fails ends the
\* request in an error raised to the caller, never in an empty list or in
\* stats.
C18_StoreFailureIsRaised ==
    (resp.op \in ToolOps
        /\ \E x \in 1..Len(resp.calls) : resp.calls[x] = "store_failed") =>
        /\ resp.status = "error"
        /\ resp.error \in {"StoreError", "OperationalError"}

\* The third statement of get_product_stats has failed on a loaded catalog.
C18_Witness ==
    /\ resp.op = "get_product_stats"
    /\ resp.calls = <<"store", "store", "store_failed">>
    /\ resp.status = "error"
    /\ db.aff.rows # {}

\* C19: search_products with an empty query text reports a validation error
\* and returns no rows, whatever the provider answers for the empty text.
C19_EmptyQueryIsRejected ==
    (resp.op = "search_products" /\ resp.query = <<>>) =>
        /\ resp.status = "error"
        /\ resp.error = "ValidationError"
        /\ resp.rows = <<>>

(***************************************************************************)
(* Queries while an ingestion run is in progress                           *)
(***************************************************************************)
\* What a completed run on csv leaves committed.
LoadedStore(csv) ==
    LET ids == { csv[r].LINK_ID : r \in 1..Len(csv) }
        records == { RecordOfLine(csv, FirstLine(csv, id)) : id \in ids }
    IN  [aff |-> [exists |-> TRUE, rows |-> records],
         vec |-> [exists |-> TRUE,
                  rows |-> { [link_id |-> a.link_id, embedding |-> a.embedding] :
                               a \in records }]]

\* The catalog in place when the run starts: the three-record catalog.
PreviousStore == LoadedStore(ScenarioSource)

InitDuringRun ==
    /\ db = PreviousStore
    /\ txn = NoTxn
    /\ pc = "idle"
    /\ source = <<>>
    /\ df = <<>>
    /\ all_embeddings = <<>>
    /\ i = 0
    /\ n = 0
    /\ resp = NoResp
    /\ other = NoRun
    /\ chat = NoChat

\* load_affiliate_data has read its source and has not returned or died.
RunInProgress == pc \notin {"idle", "done", "failed"}

\* The server, a process of its own with its own connection, answers
\* get_categories while the loader runs: it reads what is committed.
GetCategoriesDuringRun ==
    /\ resp = NoResp
    /\ RunInProgress
    /\ CategoriesCall

\* One run of the loader on the loaded database, the server answering.
NextDuringRun ==
    \/ ReadSource
    \/ EmbedBatch
    \/ Connect
    \/ DropVecLinks
    \/ DropAffiliateLinks
    \/ CreateAffiliateLinks
    \/ CreateVecLinks
    \/ InsertAffiliateLink
    \/ InsertVecLink
    \/ Commit
    \/ CreateIndexes
    \/ StepFails
    \/ GetCategoriesDuringRun
    \/ Return

SpecDuringRun == InitDuringRun /\ [][NextDuringRun]_vars

\* C20: a query that runs while an ingestion run is in progress reads either
\* the whole previous catalog or the whole new one: it never finds a table
\* missing, the store emptied or a part of the new catalog. (A statement the
\* database refuses because it is locked has read nothing.)
C20_QueryDuringRunSeesWholeCatalog ==
    (resp.op = "get_categories" /\ RunInProgress /\ resp.error # "StoreError") =>
        Outcome(resp) \in CategoriesOutcomes(PreviousStore)
                            \cup CategoriesOutcomes(LoadedStore(source))

(***************************************************************************)
(* The independence of the invocations                                     *)
(***************************************************************************)
\* What the operation of a response answers for the arguments of the
\* response on the committed database as it is now.
Results(r) ==
    CASE r.op = "search_products" ->
             SearchOutcomes(db, r.query, r.limit, r.min_epc, r.category)
      [] r.op = "get_top_products" -> TopOutcomes(db, r.category, r.limit)
      [] r.op = "get_categories" -> CategoriesOutcomes(db)
      [] r.op = "get_product_stats" -> StatsOutcomes(db)

C23_RunReplacesTheCatalog ==
    /\ (pc = "insert_aff" /\ n = 1 /\ ~txn.open) =>
          (db.aff = EmptyTable /\ db.vec = EmptyTable)
    /\ pc \in {"index", "done"} => db = LoadedStore(source)

\* A run has completed on a source that has none of the LINK IDs 2 and 3 the
\* database held when it started.
C23_Witness ==
    /\ pc = "done"
    /\ LinkIds(db.aff) = {1}
    /\ LinkIds(PreviousStore.aff) = {1, 2, 3}

\* The run has reached its inserts: line 113 has returned.
Inserting ==
    \/ pc \in {"insert_aff", "insert_vec", "index", "done"}
    \/ pc = "failed" /\ n >= 1

\* C24: a row is in the committed stores only when both of its inserts have
\* succeeded: while the rows are inserted, and after an insert has failed, no
\* committed record is without its vector and no vector without its record.
C24_RowCommittedWithItsVector ==
    Inserting =>
        /\ LinkIds(db.aff) = LinkIds(db.vec)
        /\ \A a \in db.aff.rows :
              [link_id |-> a.link_id, embedding |-> a.embedding] \in db.vec.rows
        /\ pc = "failed" => ~txn.open

\* An insert has failed after both inserts of the first row had succeeded:
\* the run is over and nothing of it is committed.
C24_Witness ==
    /\ pc = "failed"
    /\ n >= 2
    /\ db.aff = EmptyTable
    /\ db.vec = EmptyTable

(***************************************************************************)
(* Ingestion of a source of several batches                                *)
(***************************************************************************)
\* The largest number of batches of a source.
MaxBatches == 2

\* Line r of a large source: LINK ID r, and a DESCRIPTION of r mod 3
\* characters, so that the texts of neighbouring rows get different vectors.
LargeRow(r) ==
    CsvRow(r, <<"n">> \o NatText(r), [x \in 1..(r % 3) |-> "d"], <<"k">>,
           T_Tech, <<"p">>, <<>>, <<"u">> \o NatText(r), <<>>)

\* A source of rows distinct LINK IDs and a last line that repeats LINK ID 1.
LargeSource(rows) ==
    [r \in 1..(rows + 1) |->
        IF r <= rows THEN LargeRow(r)
        ELSE CsvRow(1, <<"z">>, <<>>, <<>>, T_Books, <<>>, <<>>, <<"u">>, <<>>)]

\* Sources that fill their last batch and sources that leave one row to it.
LargeSources ==
    { LargeSource(batch_size * k) : k \in 1..MaxBatches }
        \cup { LargeSource(batch_size * k + 1) : k \in 1..(MaxBatches - 1) }

ReadLargeSource_SettingUp ==
    /\ resp = NoResp
    /\ pc = "idle"
    /\ \E csv \in LargeSources :
          /\ source' = csv
          /\ df' = WithEmbeddingText(drop_duplicates(read_csv(csv)))
    /\ db' = [aff |-> EmptyTable, vec |-> EmptyTable]
    /\ pc' = "embed"
    /\ i' = 0
    /\ all_embeddings' = <<>>
    /\ resp' = NoResp
    /\ UNCHANGED <<other, chat, txn, n>>

ReadLargeSource == Read(LargeSources)

\* One run of the loader, on a large source and a loaded database.
NextBatches ==
    \/ ReadLargeSource
    \/ EmbedBatch
    \/ Connect
    \/ DropVecLinks
    \/ DropAffiliateLinks
    \/ CreateAffiliateLinks
    \/ CreateVecLinks
    \/ InsertAffiliateLink
    \/ InsertVecLink
    \/ Commit
    \/ CreateIndexes
    \/ StepFails

SpecBatches == InitDuringRun /\ [][NextBatches]_vars

\* The run has died in its batch loop, the provider refusing the batch that
\* starts after row i, the earlier batches embedded as they should.
EmbeddingFailed ==
    /\ pc = "failed"
    /\ i < Len(df)
    /\ Len(all_embeddings) = i

C26_VectorsBelongToTheirTexts ==
    /\ pc = "embed" => i % batch_size = 0 /\ i < Len(df) + batch_size
    /\ pc \in {"index", "done"} =>
          /\ Len(all_embeddings) = Len(df)
          /\ \A r \in 1..Len(df) :
                LET a == AffRecord(df, all_embeddings, r) IN
                /\ a \in db.aff.rows
                /\ a.embedding_text = Str(create_embedding_text(df[r].row))
                /\ a.embedding = ProviderEmbed(a.embedding_text.s)
                /\ [link_id |-> a.link_id, embedding |-> a.embedding] \in db.vec.rows

\* The run has not passed its batch loop: it reads its source, embeds, or
\* has died reading or embedding.
BeforeSetup ==
    \/ pc \in {"idle", "embed"}
    \/ pc = "failed" /\ (df = <<>> \/ i < Len(df))

\* C27: every batch is embedded before a table is dropped or created: when
\* reading the source or an embedding call fails, the run ends with
\* affiliate_links and vec_links holding what was committed before it.
C27_NothingTouchedBeforeAllEmbedded ==
    /\ BeforeSetup => (db = PreviousStore /\ ~txn.open)
    /\ (pc \notin {"idle", "embed", "failed"}) => Len(all_embeddings) = Len(df)

\* The provider has refused the last batch of a source of several.
C27_Witness ==
    /\ pc = "failed"
    /\ i >= batch_size
    /\ i < Len(df)
    /\ db = PreviousStore

(***************************************************************************)
(* Two runs of the loader on the same database file                        *)
(***************************************************************************)
\* The files of the two runs: they share LINK ID 1 and differ on the rest.
TwoRunSources == { <<Line1, Line2>>, <<Line4, Line3>> }

ReadRunSource == Read(TwoRunSources)

\* The tables as the second process's connection sees them.
OtherWorking ==
    IF other.txn.open THEN other.txn
    ELSE [open |-> TRUE, aff |-> db.aff, vec |-> db.vec]

\* Lines 85-110 in the second process: nothing of it touches the database.
OtherReadAndEmbed ==
    /\ other.pc = "idle"
    /\ \E csv \in TwoRunSources :
          LET frame == WithEmbeddingText(drop_duplicates(read_csv(csv))) IN
          other' = [NoRun EXCEPT
                      !.pc = "drop_vec",
                      !.source = csv,
                      !.df = frame,
                      !.all_embeddings =
                          get_embeddings([r \in 1..Len(frame) |-> frame[r].embedding_text])]
    /\ UNCHANGED <<db, txn, loader, resp, chat>>

\* Lines 48-77 in the second process. Nothing in load_affiliate_data or
\* setup_database looks for another run: the statements wait for the other
\* connection's transaction and for nothing else.
OtherDropVecLinks ==
    /\ other.pc = "drop_vec"
    /\ ~txn.open
    /\ db' = [db EXCEPT !.vec = NoTable]
    /\ other' = [other EXCEPT !.pc = "drop_aff"]
    /\ UNCHANGED <<txn, loader, resp, chat>>

OtherDropAffiliateLinks ==
    /\ other.pc = "drop_aff"
    /\ ~txn.open
    /\ db' = [db EXCEPT !.aff = NoTable]
    /\ other' = [other EXCEPT !.pc = "create_aff"]
    /\ UNCHANGED <<txn, loader, resp, chat>>

OtherCreateAffiliateLinks ==
    /\ other.pc = "create_aff"
    /\ ~txn.open
    /\ ~db.aff.exists
    /\ db' = [db EXCEPT !.aff = EmptyTable]
    /\ other' = [other EXCEPT !.pc = "create_vec"]
    /\ UNCHANGED <<txn, loader, resp, chat>>

OtherCreateVecLinks ==
    /\ other.pc = "create_vec"
    /\ ~txn.open
    /\ ~db.vec.exists
    /\ db' = [db EXCEPT !.vec = EmptyTable]
    /\ other' = [other EXCEPT !.pc = "insert_aff", !.n = 1]
    /\ UNCHANGED <<txn, loader, resp, chat>>

\* Lines 119-145 in the second process.
OtherInsertAffiliateLink ==
    /\ other.pc = "insert_aff"
    /\ ~txn.open
    /\ OtherWorking.aff.exists
    /\ other.n <= Len(other.df)
    /\ other' = [other EXCEPT
                   !.pc = "insert_vec",
                   !.txn = [OtherWorking EXCEPT
                              !.aff = InsertOrReplace(@,
                                  AffRecord(other.df, other.all_embeddings, other.n))]]
    /\ UNCHANGED <<db, txn, loader, resp, chat>>

OtherInsertVecLink ==
    /\ other.pc = "insert_vec"
    /\ ~txn.open
    /\ OtherWorking.vec.exists
    /\ other' = [other EXCEPT
                   !.pc = "insert_aff",
                   !.n = @ + 1,
                   !.txn = [OtherWorking EXCEPT
                              !.vec = InsertOrReplace(@,
                                  VecRecord(other.df, other.all_embeddings, other.n))]]
    /\ UNCHANGED <<db, txn, loader, resp, chat>>

\* Line 147 in the second process.
OtherCommit ==
    /\ other.pc = "insert_aff"
    /\ other.n > Len(other.df)
    /\ db' = [aff |-> OtherWorking.aff, vec |-> OtherWorking.vec]
    /\ other' = [other EXCEPT !.pc = "index", !.txn = NoTxn]
    /\ UNCHANGED <<txn, loader, resp, chat>>

\* Lines 151-155 in the second process.
OtherCreateIndexes ==
    /\ other.pc = "index"
    /\ ~txn.open
    /\ other' = [other EXCEPT !.pc = "done"]
    /\ UNCHANGED <<db, txn, loader, resp, chat>>

\* A statement of the second process raises: the process ends, its
\* transaction rolled back.
OtherFails ==
    /\ other.pc \in FailingSteps
    /\ other.pc # "idle"
    /\ other' = [other EXCEPT !.pc = "failed", !.txn = NoTxn]
    /\ UNCHANGED <<db, txn, loader, resp, chat>>

NextTwoRuns ==
    \/ ReadRunSource
    \/ EmbedBatch
    \/ Connect
    \/ DropVecLinks
    \/ DropAffiliateLinks
    \/ CreateAffiliateLinks
    \/ CreateVecLinks
    \/ InsertAffiliateLink
    \/ InsertVecLink
    \/ Commit
    \/ CreateIndexes
    \/ StepFails
    \/ OtherReadAndEmbed
    \/ OtherDropVecLinks
    \/ OtherDropAffiliateLinks
    \/ OtherCreateAffiliateLinks
    \/ OtherCreateVecLinks
    \/ OtherInsertAffiliateLink
    \/ OtherInsertVecLink
    \/ OtherCommit
    \/ OtherCreateIndexes
    \/ OtherFails

SpecTwoRuns == InitDuringRun /\ [][NextTwoRuns]_vars

\* A run at p has dropped a table and has not committed its rows.
BetweenDropAndCommit(p) ==
    p \in {"drop_aff", "create_aff", "create_vec", "insert_aff", "insert_vec"}

BothRunsCompleted == pc = "done" /\ other.pc = "done"

\* C25: two runs on the same database never overlap: while one is between
\* dropping the tables and its commit the other is not, and when both have
\* completed the stores hold exactly the rows of one run's source.
C25_RunsNeverOverlap ==
    /\ ~(BetweenDropAndCommit(pc) /\ BetweenDropAndCommit(other.pc))
    /\ BothRunsCompleted =>
          db \in {LoadedStore(source), LoadedStore(other.source)}

(***************************************************************************)
(* examples/relationship_coach_mcp.py: process_message_with_mcp            *)
(***************************************************************************)
\* The largest number of content blocks of the model's first response.
MaxBlocks == 3

\* A content block: a text, a tool_use with its id, or the tool_result of the
\* tool_use of that id (its tool_use_id).
Block(type, id) == [type |-> type, id |-> id]

Message(role, content) == [role |-> role, content |-> content]

\* The content of a response: text and tool_use blocks in any order, the id
\* of a tool_use being its own.
Contents ==
    { [k \in 1..Len(types) |->
          Block(types[k], IF types[k] = "tool_use" THEN k ELSE 0)] :
        types \in UNION { [1..c -> {"text", "tool_use"}] : c \in 0..MaxBlocks } }

\* The history the chat hands over: no turn, or an earlier exchange.
Histories ==
    { <<>>,
      <<Message("user", <<Block("text", 0)>>),
        Message("assistant", <<Block("text", 0)>>)>> }

\* Lines 113-117 and 154-166: the messages are the history and the new user
\* message; the first model call returns its content blocks.
StartMessage ==
    /\ chat.pc = "idle"
    /\ \E history \in Histories, content \in Contents :
          chat' = [pc |-> "blocks",
                   messages |-> Append(history, Message("user", <<Block("text", 0)>>)),
                   content |-> content,
                   k |-> 1,
                   assistant_message_content |-> <<>>,
                   has_tool_use |-> FALSE,
                   sent |-> <<>>]
    /\ UNCHANGED <<db, txn, loader, resp, other>>

\* Lines 168-172: a text block is kept for the next assistant message.
TextBlock ==
    /\ chat.pc = "blocks"
    /\ chat.k <= Len(chat.content)
    /\ chat.content[chat.k].type = "text"
    /\ chat' = [chat EXCEPT
                  !.assistant_message_content = Append(@, chat.content[chat.k]),
                  !.k = @ + 1]
    /\ UNCHANGED <<db, txn, loader, resp, other>>

\* Lines 173-229: session.call_tool returns; the assistant message with the
\* kept texts and the tool_use is appended, then the user message with the
\* tool_result, and the kept blocks are reset.
ToolCallReturns ==
    /\ chat.pc = "blocks"
    /\ chat.k <= Len(chat.content)
    /\ chat.content[chat.k].type = "tool_use"
    /\ chat' = [chat EXCEPT
                  !.has_tool_use = TRUE,
                  !.messages =
                      @ \o <<Message("assistant",
                                     Append(chat.assistant_message_content,
                                            chat.content[chat.k])),
                             Message("user",
                                     <<Block("tool_result", chat.content[chat.k].id)>>)>>,
                  !.assistant_message_content = <<>>,
                  !.k = @ + 1]
    /\ UNCHANGED <<db, txn, loader, resp, other>>

\* Lines 180-182 and 231-243: session.call_tool raises; the handler appends
\* the user message with the tool_result and nothing else.
ToolCallRaises ==
    /\ chat.pc = "blocks"
    /\ chat.k <= Len(chat.content)
    /\ chat.content[chat.k].type = "tool_use"
    /\ chat' = [chat EXCEPT
                  !.has_tool_use = TRUE,
                  !.messages =
                      Append(@, Message("user",
                                        <<Block("tool_result", chat.content[chat.k].id)>>)),
                  !.k = @ + 1]
    /\ UNCHANGED <<db, txn, loader, resp, other>>

\* Lines 246-255: the follow-up model call is made with the messages.
FollowUp ==
    /\ chat.pc = "blocks"
    /\ chat.k > Len(chat.content)
    /\ chat.has_tool_use
    /\ chat' = [chat EXCEPT !.pc = "followed_up", !.sent = chat.messages]
    /\ UNCHANGED <<db, txn, loader, resp, other>>

\* Lines 265-269: without a tool_use the texts of the first response are the
\* answer.
AnswerWithoutTools ==
    /\ chat.pc = "blocks"
    /\ chat.k > Len(chat.content)
    /\ ~chat.has_tool_use
    /\ chat' = [chat EXCEPT !.pc = "answered"]
    /\ UNCHANGED <<db, txn, loader, resp, other>>

NextChat ==
    \/ StartMessage
    \/ TextBlock
    \/ ToolCallReturns
    \/ ToolCallRaises
    \/ FollowUp
    \/ AnswerWithoutTools

SpecChat == Init /\ [][NextChat]_vars

\* The positions of the messages sent that hold a tool_result for id.
ResultsFor(id) ==
    { j \in 1..Len(chat.sent) :
        \E b \in 1..Len(chat.sent[j].content) :
            chat.sent[j].content[b] = Block("tool_result", id) }

\* C28: for every tool_use block of the first response, the messages of the
\* follow-up call hold exactly one tool_result with its id, right after an
\* assistant message that holds the tool_use, whether the tool call returned
\* or raised; and the roles alternate between user and assistant.
C28_ToolResultFollowsItsToolUse ==
    chat.pc = "followed_up" =>
        /\ \A k \in 1..Len(chat.content) :
              chat.content[k].type = "tool_use" =>
                  /\ Cardinality(ResultsFor(chat.content[k].id)) = 1
                  /\ \A j \in ResultsFor(chat.content[k].id) :
                        /\ j > 1
                        /\ chat.sent[j - 1].role = "assistant"
                        /\ \E b \in 1..Len(chat.sent[j - 1].content) :
                              chat.sent[j - 1].content[b] = chat.content[k]
        /\ \A j \in 1..(Len(chat.sent) - 1) :
              chat.sent[j].role # chat.sent[j + 1].role

====
